---------------------------- MODULE Spec2Model ----------------------------
(***************************************************************************)
(* A model of the essay editor of src/app/page.tsx (component Home): the   *)
(* document with its undo/redo history, the analysis result, the review    *)
(* pane's annotation of the document, and the handlers that change them.   *)
(*                                                                         *)
(* A text is a sequence of one-character strings.  A JavaScript value      *)
(* that may be null/undefined is a sequence of length at most one: None    *)
(* is null/undefined, Some(x) is the value x.  Array indices are the       *)
(* source's (from 0); sequences are TLA+'s (from 1).                       *)
(***************************************************************************)
EXTENDS Integers, Sequences, FiniteSets, TLC

None == <<>>
Some(x) == <<x>>

\* JavaScript truthiness of an optional string: neither null/undefined nor "".
Truthy(o) == o # None /\ o[1] # <<>>

(***************************************************************************)
(* String primitives of the JavaScript runtime, as the handlers use them.  *)
(***************************************************************************)

\* s.slice(from) / s.slice(from, to) on 0-based positions, as text.
Slice(s, from, to) == SubSeq(s, from + 1, to)

\* Whether t occurs in s at 0-based position i.
OccursAt(s, t, i) ==
    /\ i >= 0
    /\ i + Len(t) <= Len(s)
    /\ SubSeq(s, i + 1, i + Len(t)) = t

\* String.prototype.indexOf: the first position of t in s, -1 when absent.
indexOf(s, t) ==
    LET hits == {i \in 0..Len(s) : OccursAt(s, t, i)}
    IN  IF hits = {} THEN -1
        ELSE CHOOSE i \in hits : \A j \in hits : i <= j

\* String.prototype.includes
includes(s, t) == indexOf(s, t) # -1

IsWhiteSpace(c) == c \in {" ", "\n", "\t"}

\* String.prototype.trim() === "" : the text holds white space only.
TrimIsEmpty(s) == \A i \in 1..Len(s) : IsWhiteSpace(s[i])

\* String.prototype.split with a non-empty separator: the pieces between
\* the non-overlapping occurrences of sep, found left to right.
RECURSIVE SplitOn(_, _)
SplitOn(s, sep) ==
    LET p == indexOf(s, sep)
    IN  IF p = -1 THEN <<s>>
        ELSE <<Slice(s, 0, p)>> \o SplitOn(Slice(s, p + Len(sep), Len(s)), sep)

\* String.prototype.split(separator): an undefined separator gives the
\* whole string, the empty separator gives the characters ([] for ""),
\* any other separator splits on its occurrences.
split(s, sep) ==
    IF sep = None THEN <<s>>
    ELSE IF sep[1] = <<>> THEN [i \in 1..Len(s) |-> <<s[i]>>]
    ELSE SplitOn(s, sep[1])

\* GetSubstitution of String.prototype.replace for a string pattern (no
\* capture groups): in the replacement template "$$" stands for "$", "$&"
\* for the matched text, "$`" for the text before the match and "$'" for
\* the text after it; every other character stands for itself.
RECURSIVE GetSubstitution(_, _, _, _)
GetSubstitution(matched, str, position, template) ==
    IF template = <<>> THEN <<>>
    ELSE IF template[1] = "$" /\ Len(template) >= 2
              /\ template[2] \in {"$", "&", "`", "'"}
    THEN LET rest == GetSubstitution(matched, str, position, Slice(template, 2, Len(template)))
         IN  CASE template[2] = "$" -> <<"$">> \o rest
               [] template[2] = "&" -> matched \o rest
               [] template[2] = "`" -> Slice(str, 0, position) \o rest
               [] template[2] = "'" -> Slice(str, position + Len(matched), Len(str)) \o rest
    ELSE <<template[1]>> \o GetSubstitution(matched, str, position, Slice(template, 1, Len(template)))

\* String.prototype.replace(pattern, replacement) with a string pattern:
\* only the first occurrence is replaced; no occurrence, no change.
replace(s, pattern, replacement) ==
    LET p == indexOf(s, pattern)
    IN  IF p = -1 THEN s
        ELSE Slice(s, 0, p)
             \o GetSubstitution(pattern, s, p, replacement)
             \o Slice(s, p + Len(pattern), Len(s))


(***************************************************************************)
(* The analysis result (FeedbackData) and its parts.  A Correction is      *)
(* [original, replacement]; original is optional (a response may leave it  *)
(* out).  A suggestion, an enrichment item and a tip each carry an         *)
(* optional target text and an optional replacement text.                  *)
(***************************************************************************)

\* The keys of FeedbackData['feedback'].
Criteria ==
    {"task_achievement", "coherence_cohesion", "lexical_resource", "grammatical_range_accuracy"}

\* selectedCriterion === null
NoCriterion == "null"

(***************************************************************************)
(* The Annotator: renderAnnotatedEssay.  A run is a plain string segment   *)
(* or a span; a correction span carries the index of its correction.       *)
(***************************************************************************)

Plain(text) == [kind |-> "plain", text |-> text, ref |-> -1]
CorrectionSpan(text, index) == [kind |-> "correction", text |-> text, ref |-> index]
ChangedSpan(text) == [kind |-> "changed", text |-> text, ref |-> -1]

\* parts.forEach((part, i) => { push(part); if (i < parts.length - 1) push(span) })
RECURSIVE Interleave(_, _)
Interleave(parts, span) ==
    IF Len(parts) = 0 THEN <<>>
    ELSE IF Len(parts) = 1 THEN <<Plain(parts[1])>>
    ELSE <<Plain(parts[1]), span>> \o Interleave(Tail(parts), span)

\* The correction pass with the span showing the replacement text.
SplitSegmentOnCorrection_ShowsReplacement(segment, correction, index) ==
    IF segment.kind = "plain"
    THEN LET parts == split(segment.text, correction.original)
         IN  IF Len(parts) > 1
             THEN Interleave(parts, CorrectionSpan(correction.replacement, index))
             ELSE <<segment>>
    ELSE <<segment>>

\* The correction pass splitting every segment, spans of earlier corrections
\* included.
SplitSegmentOnCorrection_AnySegment(segment, correction, index) ==
    LET parts == split(segment.text, correction.original)
    IN  IF Len(parts) > 1
        THEN Interleave(parts, CorrectionSpan(correction.original[1], index))
        ELSE <<segment>>

\* The body of annotatedText.forEach for one segment and one correction.
SplitSegmentOnCorrection(segment, correction, index) ==
    IF segment.kind = "plain"
    THEN LET parts == split(segment.text, correction.original)
         IN  IF Len(parts) > 1
             THEN Interleave(parts, CorrectionSpan(correction.original[1], index))
             ELSE <<segment>>
    ELSE <<segment>>

\* One correction applied to the first segment of annotatedText only.
ApplyCorrection_FirstSegmentOnly(annotatedText, correction, index) ==
    IF annotatedText = <<>> THEN <<>>
    ELSE SplitSegmentOnCorrection(annotatedText[1], correction, index)
         \o Tail(annotatedText)

\* One correction applied to every segment of annotatedText.
RECURSIVE ApplyCorrection(_, _, _)
ApplyCorrection(annotatedText, correction, index) ==
    IF annotatedText = <<>> THEN <<>>
    ELSE SplitSegmentOnCorrection(annotatedText[1], correction, index)
         \o ApplyCorrection(Tail(annotatedText), correction, index)

\* result.corrections.forEach, from the correction at 0-based position index on.
RECURSIVE ApplyCorrections(_, _, _)
ApplyCorrections(annotatedText, corrections, index) ==
    IF index >= Len(corrections) THEN annotatedText
    ELSE ApplyCorrections(ApplyCorrection(annotatedText, corrections[index + 1], index),
                          corrections, index + 1)

\* The second pass's body for one segment: a string segment that includes
\* lastModifiedText is split on it, a span between every two parts.
SplitSegmentOnModified(segment, modified) ==
    IF segment.kind = "plain" /\ includes(segment.text, modified)
    THEN Interleave(split(segment.text, Some(modified)), ChangedSpan(modified))
    ELSE <<segment>>

RECURSIVE HighlightModified(_, _)
HighlightModified(annotatedText, modified) ==
    IF annotatedText = <<>> THEN <<>>
    ELSE SplitSegmentOnModified(annotatedText[1], modified)
         \o HighlightModified(Tail(annotatedText), modified)

\* renderAnnotatedEssay for a result that has its corrections list.
renderAnnotatedEssay(text, res, modified) ==
    IF res = None THEN <<Plain(text)>>
    ELSE LET corrected == ApplyCorrections(<<Plain(text)>>, res[1].corrections[1], 0)
         IN  IF Truthy(modified) THEN HighlightModified(corrected, modified[1])
             ELSE corrected

\* The text the runs show, in order.
RECURSIVE Concat(_)
Concat(rs) == IF rs = <<>> THEN <<>> ELSE rs[1].text \o Concat(Tail(rs))

\* Rendering Home throws a TypeError: result.corrections.forEach in the
\* review pane, Object.keys(result.feedback) in the results section.
RenderThrows(res, mode) ==
    /\ res # None
    /\ \/ res[1].feedback = None
       \/ mode = "review" /\ res[1].corrections = None


(***************************************************************************)
(* The Applicability Tracker: the isApplied / canApply of the suggestion,  *)
(* enrichment and tip lists, and what the results section shows for them.  *)
(***************************************************************************)

\* isApplied without its negation.
isApplied_Inverted(text, target) == Truthy(target) /\ includes(text, target[1])

\* item.apply_to_text && !essay.includes(item.apply_to_text)
isApplied(text, target) == Truthy(target) /\ ~includes(text, target[1])

\* canApply that takes any target that is present, the empty one included.
canApply_DefinedTarget(target, replacement) == target # None /\ Truthy(replacement)

\* item.apply_to_text && item.replacement_text
canApply(target, replacement) == Truthy(target) /\ Truthy(replacement)

\* The lists the results section renders (nothing for a missing list).
PrioritizedSuggestions(res) ==
    IF res = None \/ res[1].prioritized_suggestions = None THEN <<>>
    ELSE res[1].prioritized_suggestions[1]

Enrichment(res) ==
    IF res = None \/ res[1].enrichment = None THEN <<>>
    ELSE res[1].enrichment[1]

\* The tips the modal shows: selectedCriterion && result.
Tips(res, criterion) ==
    IF res = None \/ criterion = NoCriterion \/ res[1].feedback = None THEN <<>>
    ELSE res[1].feedback[1][criterion]

\* One rendered item: the check mark (isApplied) and its apply control,
\* which is not rendered, rendered disabled, or rendered enabled.
Card(text, target, replacement) ==
    [ isApplied |-> isApplied(text, target),
      button |-> IF ~canApply(target, replacement) THEN "none"
                 ELSE IF isApplied(text, target) THEN "disabled"
                 ELSE "enabled" ]

\* The rendered suggestion, enrichment and tip items.
Cards(text, res, criterion) ==
    [ prioritized |-> [i \in DOMAIN PrioritizedSuggestions(res) |->
                          Card(text, PrioritizedSuggestions(res)[i].apply_to_text,
                               PrioritizedSuggestions(res)[i].replacement_text)],
      enrichment |-> [i \in DOMAIN Enrichment(res) |->
                          Card(text, Enrichment(res)[i].target_text,
                               Enrichment(res)[i].replacement_text)],
      tips |-> [i \in DOMAIN Tips(res, criterion) |->
                          Card(text, Tips(res, criterion)[i].apply_to_text,
                               Tips(res, criterion)[i].replacement_text)] ]

NoCards == [prioritized |-> <<>>, enrichment |-> <<>>, tips |-> <<>>]

(***************************************************************************)
(* Bounds and inputs of the model.                                         *)
(***************************************************************************)

\* The longest history the model lets grow.
MaxHist == 3

\* Texts the user types or pastes into the textarea.
UserTexts == { <<>>, <<" ">>, <<"a", " ", "a">> }

NoTips == [c \in Criteria |-> <<>>]

\* Analysis responses with success status.  ResultA: two corrections (the
\* second one's replacement holds a "$$"), an actionable suggestion, an
\* actionable enrichment item, and an informational and an actionable tip.
ResultA ==
    [ corrections |-> Some(<< [original |-> Some(<<"a">>), replacement |-> <<"b">>],
                              [original |-> Some(<<"b">>), replacement |-> <<"$", "$">>] >>),
      prioritized_suggestions |-> Some(<< [apply_to_text |-> Some(<<"a">>),
                                           replacement_text |-> Some(<<"b">>)] >>),
      enrichment |-> Some(<< [target_text |-> Some(<<"b">>),
                              replacement_text |-> Some(<<"a">>)] >>),
      feedback |-> Some([NoTips EXCEPT !["lexical_resource"] =
                            << [apply_to_text |-> Some(<<"a">>),
                                replacement_text |-> None],
                               [apply_to_text |-> Some(<<"a">>),
                                replacement_text |-> Some(<<"b">>)] >>]) ]

\* ResultB: a correction without original, and suggestions and enrichment
\* items with an empty target, without replacement, with an empty replacement.
ResultB ==
    [ corrections |-> Some(<< [original |-> None, replacement |-> <<"b">>] >>),
      prioritized_suggestions |-> Some(<< [apply_to_text |-> Some(<<>>),
                                           replacement_text |-> Some(<<"b">>)],
                                          [apply_to_text |-> Some(<<"b", " ", "b">>),
                                           replacement_text |-> None] >>),
      enrichment |-> Some(<< [target_text |-> Some(<<" ">>),
                              replacement_text |-> Some(<<>>)],
                             [target_text |-> Some(<<>>),
                              replacement_text |-> Some(<<"b">>)] >>),
      feedback |-> Some(NoTips) ]

\* The body "{}": JSON.parse(content || '{}') of route.ts.
ResultEmpty ==
    [ corrections |-> None, prioritized_suggestions |-> None,
      enrichment |-> None, feedback |-> None ]

Responses == {ResultA, ResultB, ResultEmpty}

\* The criteria whose details the user opens.
OpenedCriteria == {"lexical_resource"}

(***************************************************************************)
(* The state of Home.                                                      *)
(***************************************************************************)
VARIABLES
    essay,              \* useState("")
    history,            \* useState<string[]>([])
    historyIndex,       \* useState(-1)
    loading,            \* useState(false)
    result,             \* useState<FeedbackData | null>(null)
    error,              \* useState("")
    selectedCriterion,  \* useState(null)
    viewMode,           \* useState("edit")
    lastModifiedText,   \* useState<string | null>(null)
    pending,            \* fetch("/api/analyze") calls not yet settled, each kept
                        \* with the result its handleAnalyze cleared before the call
    runs,               \* what renderAnnotatedEssay returned at the last render
    cards,              \* the suggestion, enrichment and tip items as last rendered
    crashed,            \* a render threw: the component tree is unmounted
    lastOp              \* the handler that ran last, with its arguments

vars == <<essay, history, historyIndex, loading, result, error, selectedCriterion,
          viewMode, lastModifiedText, pending, runs, cards, crashed, lastOp>>

\* The record of the handler that ran last: its name, the arguments of an
\* apply, the text handed to updateEssay, a flag (undo/redo: the cursor
\* moved; apply: Shift was held; analyze: a request was sent; response: it
\* succeeded), and whether an effective undo came right before this
\* setText (or, for a redo, before the setText right before it).
Op(name, target, replacement, text, flag, branched) ==
    [op |-> name, target |-> target, replacement |-> replacement, text |-> text,
     flag |-> flag, branched |-> branched]

Did(name, flag) == Op(name, <<>>, <<>>, <<>>, flag, FALSE)

\* history[i] of the source: undefined outside the array.
HistoryAt(i) == IF i + 1 \in DOMAIN history THEN Some(history[i + 1]) ELSE None

Init ==
    /\ essay = <<>>
    /\ history = <<>>
    /\ historyIndex = -1
    /\ loading = FALSE
    /\ result = None
    /\ error = ""
    /\ selectedCriterion = NoCriterion
    /\ viewMode = "edit"
    /\ lastModifiedText = None
    /\ pending = <<>>
    /\ runs = <<>>
    /\ cards = NoCards
    /\ crashed = FALSE
    /\ lastOp = Did("init", FALSE)

(***************************************************************************)
(* The Document Store: updateEssay, handleUndo, handleRedo.                *)
(***************************************************************************)

\* updateEssay with the cursor taken from the old history's length.
updateEssay_StaleLength(newEssay, sourceReplacement) ==
    LET newHistory == Append(SubSeq(history, 1, historyIndex + 1), newEssay)
    IN  /\ essay' = newEssay
        /\ history' = newHistory
        /\ historyIndex' = Len(history)
        /\ lastModifiedText' = IF Truthy(sourceReplacement) THEN sourceReplacement
                               ELSE lastModifiedText

\* updateEssay that appends without cutting the history after the cursor.
updateEssay_NoTruncate(newEssay, sourceReplacement) ==
    LET newHistory == Append(history, newEssay)
    IN  /\ essay' = newEssay
        /\ history' = newHistory
        /\ historyIndex' = Len(newHistory) - 1
        /\ lastModifiedText' = IF Truthy(sourceReplacement) THEN sourceReplacement
                               ELSE lastModifiedText

updateEssay(newEssay, sourceReplacement) ==
    LET newHistory == Append(SubSeq(history, 1, historyIndex + 1), newEssay)
    IN  /\ essay' = newEssay
        /\ history' = newHistory
        /\ historyIndex' = Len(newHistory) - 1
        /\ lastModifiedText' = IF Truthy(sourceReplacement) THEN sourceReplacement
                               ELSE lastModifiedText

\* handleUndo that pops the snapshot it leaves.
handleUndo_PopsSnapshot ==
    IF historyIndex > 0
    THEN /\ historyIndex' = historyIndex - 1
         /\ essay' = history[historyIndex]
         /\ history' = SubSeq(history, 1, historyIndex)
    ELSE UNCHANGED <<essay, history, historyIndex>>

handleUndo ==
    IF historyIndex > 0
    THEN /\ historyIndex' = historyIndex - 1
         /\ essay' = history[historyIndex]
         /\ UNCHANGED history
    ELSE UNCHANGED <<essay, history, historyIndex>>

\* handleRedo that moves the cursor and leaves the essay.
handleRedo_KeepsEssay ==
    IF historyIndex < Len(history) - 1
    THEN /\ historyIndex' = historyIndex + 1
         /\ UNCHANGED <<essay, history>>
    ELSE UNCHANGED <<essay, history, historyIndex>>

handleRedo ==
    IF historyIndex < Len(history) - 1
    THEN /\ historyIndex' = historyIndex + 1
         /\ essay' = history[historyIndex + 2]
         /\ UNCHANGED history
    ELSE UNCHANGED <<essay, history, historyIndex>>

(***************************************************************************)
(* The Edit Applier: applyFix.                                             *)
(***************************************************************************)

applyFix(original, replacement, shiftKey) ==
    /\ updateEssay(replace(essay, original, replacement),
                   IF shiftKey THEN None ELSE Some(replacement))
    /\ viewMode' = "review"
    /\ selectedCriterion' = NoCriterion

\* Room for one more snapshot after the cursor.
HistoryRoom == historyIndex + 2 <= MaxHist


\* A render that keeps the runs of the last render while the essay is the
\* same.
Rerender_KeepsRuns ==
    /\ crashed' = RenderThrows(result', viewMode')
    /\ runs' = IF crashed' \/ viewMode' # "review" THEN <<>>
               ELSE IF essay' = essay /\ runs # <<>> THEN runs
               ELSE renderAnnotatedEssay(essay', result', lastModifiedText')
    /\ cards' = IF crashed' THEN NoCards
                ELSE Cards(essay', result', selectedCriterion')

\* The render that follows every state change: the review pane calls
\* renderAnnotatedEssay, the edit pane shows the textarea; the results
\* section and the modal show the cards.
Rerender ==
    /\ crashed' = RenderThrows(result', viewMode')
    /\ runs' = IF crashed' \/ viewMode' # "review" THEN <<>>
               ELSE renderAnnotatedEssay(essay', result', lastModifiedText')
    /\ cards' = IF crashed' THEN NoCards
                ELSE Cards(essay', result', selectedCriterion')

(***************************************************************************)
(* The handlers, one action per user or network event.                     *)
(***************************************************************************)

AfterUndo == lastOp.op = "undo" /\ lastOp.flag

\* What the record of an undo keeps of the apply right before it (from =
\* "apply"), and the record of a redo of the undo right before it that
\* moved the cursor (from = "undo").
Carried(from) ==
    IF lastOp.op = from /\ (from = "undo" => lastOp.flag)
    THEN lastOp
    ELSE Did("none", FALSE)

\* <textarea onChange={(e) => updateEssay(e.target.value)}>, edit mode only.
TypeEssay(text) ==
    /\ ~crashed
    /\ viewMode = "edit"
    /\ HistoryRoom
    /\ updateEssay(text, None)
    /\ UNCHANGED <<loading, result, error, selectedCriterion, viewMode, pending>>
    /\ lastOp' = Op("edit", <<>>, <<>>, text, FALSE, AfterUndo)
    /\ Rerender

\* An undo that clears the last-changed text.
Undo_ClearsHighlight ==
    /\ ~crashed
    /\ handleUndo
    /\ lastModifiedText' = None
    /\ UNCHANGED <<loading, result, error, selectedCriterion, viewMode, pending>>
    /\ lastOp' = Op("undo", Carried("apply").target, Carried("apply").replacement,
                    Carried("apply").text,
                    historyIndex' # historyIndex, FALSE)
    /\ Rerender

\* Ctrl+Z or the Undo button.
Undo ==
    /\ ~crashed
    /\ handleUndo
    /\ UNCHANGED <<loading, result, error, selectedCriterion, viewMode, pending,
                   lastModifiedText>>
    /\ lastOp' = Op("undo", Carried("apply").target, Carried("apply").replacement,
                    Carried("apply").text,
                    historyIndex' # historyIndex, FALSE)
    /\ Rerender

\* Ctrl+Y or the Redo button.
Redo ==
    /\ ~crashed
    /\ handleRedo
    /\ UNCHANGED <<loading, result, error, selectedCriterion, viewMode, pending,
                   lastModifiedText>>
    /\ lastOp' = Op("redo", Carried("undo").target, Carried("undo").replacement,
                    Carried("undo").text,
                    historyIndex' # historyIndex,
                    lastOp.op \in {"edit", "apply"} /\ lastOp.branched)
    /\ Rerender

\* applyFix run by one of its callers.
Apply(original, replacement, shiftKey) ==
    /\ applyFix(original, replacement, shiftKey)
    /\ UNCHANGED <<loading, result, error, pending>>
    /\ lastOp' = Op("apply", original, replacement, replace(essay, original, replacement),
                    shiftKey, AfterUndo)
    /\ Rerender

\* A click on a correction span of the review pane.
ClickCorrection(k, shiftKey) ==
    /\ ~crashed
    /\ viewMode = "review"
    /\ HistoryRoom
    /\ k \in DOMAIN runs
    /\ runs[k].kind = "correction"
    /\ LET correction == result[1].corrections[1][runs[k].ref + 1]
       IN  Apply(correction.original[1], correction.replacement, shiftKey)

\* The "Apply this fix" button of a prioritized suggestion.
ClickSuggestion(i, shiftKey) ==
    /\ ~crashed
    /\ HistoryRoom
    /\ i \in DOMAIN cards.prioritized
    /\ cards.prioritized[i].button = "enabled"
    /\ LET item == PrioritizedSuggestions(result)[i]
       IN  Apply(item.apply_to_text[1], item.replacement_text[1], shiftKey)

\* A click on an enrichment card (or on its Apply badge).
ClickEnrichment(i, shiftKey) ==
    /\ ~crashed
    /\ HistoryRoom
    /\ i \in DOMAIN cards.enrichment
    /\ cards.enrichment[i].button = "enabled"
    /\ LET item == Enrichment(result)[i]
       IN  Apply(item.target_text[1], item.replacement_text[1], shiftKey)

\* The "Apply this fix to essay" button of a tip in the modal.
ClickTip(i, shiftKey) ==
    /\ ~crashed
    /\ HistoryRoom
    /\ i \in DOMAIN cards.tips
    /\ cards.tips[i].button = "enabled"
    /\ LET tip == Tips(result, selectedCriterion)[i]
       IN  Apply(tip.apply_to_text[1], tip.replacement_text[1], shiftKey)

\* The Edit / Review toggle, rendered only with a result.
SetViewMode(mode) ==
    /\ ~crashed
    /\ result # None
    /\ viewMode' = mode
    /\ UNCHANGED <<essay, history, historyIndex, loading, result, error,
                   selectedCriterion, lastModifiedText, pending>>
    /\ lastOp' = Did("mode", FALSE)
    /\ Rerender

\* A criterion card of the results section: setSelectedCriterion(key).
SelectCriterion(key) ==
    /\ ~crashed
    /\ result # None
    /\ selectedCriterion' = key
    /\ UNCHANGED <<essay, history, historyIndex, loading, result, error,
                   viewMode, lastModifiedText, pending>>
    /\ lastOp' = Did("select", FALSE)
    /\ Rerender

\* The modal's close button or backdrop.
CloseModal ==
    /\ ~crashed
    /\ selectedCriterion # NoCriterion
    /\ selectedCriterion' = NoCriterion
    /\ UNCHANGED <<essay, history, historyIndex, loading, result, error,
                   viewMode, lastModifiedText, pending>>
    /\ lastOp' = Did("close", FALSE)
    /\ Rerender

\* handleAnalyze that resets error, loading and result before it looks at
\* the essay.
ClickAnalyze_ClearsFirst ==
    /\ ~crashed
    /\ ~loading
    /\ IF TrimIsEmpty(essay)
       THEN /\ error' = "Please enter your essay."
            /\ result' = None
            /\ UNCHANGED <<loading, pending>>
            /\ lastOp' = Did("analyze", FALSE)
       ELSE /\ error' = ""
            /\ loading' = TRUE
            /\ result' = None
            /\ pending' = Append(pending, [cleared |-> result])
            /\ lastOp' = Did("analyze", TRUE)
    /\ UNCHANGED <<essay, history, historyIndex, selectedCriterion, viewMode,
                   lastModifiedText>>
    /\ Rerender

\* handleAnalyze reachable while a request is outstanding.
ClickAnalyze_NoGuard ==
    /\ ~crashed
    /\ IF TrimIsEmpty(essay)
       THEN /\ error' = "Please enter your essay."
            /\ UNCHANGED <<loading, result, pending>>
            /\ lastOp' = Did("analyze", FALSE)
       ELSE /\ error' = ""
            /\ loading' = TRUE
            /\ result' = None
            /\ pending' = Append(pending, [cleared |-> result])
            /\ lastOp' = Did("analyze", TRUE)
    /\ UNCHANGED <<essay, history, historyIndex, selectedCriterion, viewMode,
                   lastModifiedText>>
    /\ Rerender

\* handleAnalyze up to its await: the button is disabled while loading.
ClickAnalyze ==
    /\ ~crashed
    /\ ~loading
    /\ IF TrimIsEmpty(essay)
       THEN /\ error' = "Please enter your essay."
            /\ UNCHANGED <<loading, result, pending>>
            /\ lastOp' = Did("analyze", FALSE)
       ELSE /\ error' = ""
            /\ loading' = TRUE
            /\ result' = None
            /\ pending' = Append(pending, [cleared |-> result])
            /\ lastOp' = Did("analyze", TRUE)
    /\ UNCHANGED <<essay, history, historyIndex, selectedCriterion, viewMode,
                   lastModifiedText>>
    /\ Rerender

\* A response handler that drops the response when something else happened
\* since the request was issued.
ResponseOk_DropsStale(data) ==
    /\ ~crashed
    /\ pending # <<>>
    /\ result' = IF lastOp.op = "analyze" THEN Some(data) ELSE result
    /\ viewMode' = "review"
    /\ loading' = FALSE
    /\ pending' = Tail(pending)
    /\ UNCHANGED <<essay, history, historyIndex, error, selectedCriterion,
                   lastModifiedText>>
    /\ lastOp' = Did("response", TRUE)
    /\ Rerender

\* A response handler that keeps the result loaded before the request.
ResponseOk_KeepsLoaded(data) ==
    /\ ~crashed
    /\ pending # <<>>
    /\ result' = IF pending[1].cleared # None THEN pending[1].cleared ELSE Some(data)
    /\ viewMode' = "review"
    /\ loading' = FALSE
    /\ pending' = Tail(pending)
    /\ UNCHANGED <<essay, history, historyIndex, error, selectedCriterion,
                   lastModifiedText>>
    /\ lastOp' = Did("response", TRUE)
    /\ Rerender

\* handleAnalyze after its await, response.ok: setResult(data), review mode.
ResponseOk(data) ==
    /\ ~crashed
    /\ pending # <<>>
    /\ result' = Some(data)
    /\ viewMode' = "review"
    /\ loading' = FALSE
    /\ pending' = Tail(pending)
    /\ UNCHANGED <<essay, history, historyIndex, error, selectedCriterion,
                   lastModifiedText>>
    /\ lastOp' = Did("response", TRUE)
    /\ Rerender

\* A failure handler without the finally block: loading stays set.
ResponseFailed_KeepsLoading ==
    /\ ~crashed
    /\ pending # <<>>
    /\ error' = "Something went wrong. Please try again."
    /\ pending' = Tail(pending)
    /\ UNCHANGED <<essay, history, historyIndex, loading, result, selectedCriterion,
                   viewMode, lastModifiedText>>
    /\ lastOp' = Did("response", FALSE)
    /\ Rerender

\* handleAnalyze after its await, fetch rejected or !response.ok.
ResponseFailed ==
    /\ ~crashed
    /\ pending # <<>>
    /\ error' = "Something went wrong. Please try again."
    /\ loading' = FALSE
    /\ pending' = Tail(pending)
    /\ UNCHANGED <<essay, history, historyIndex, result, selectedCriterion,
                   viewMode, lastModifiedText>>
    /\ lastOp' = Did("response", FALSE)
    /\ Rerender

Next ==
    \/ \E text \in UserTexts : TypeEssay(text)
    \/ Undo
    \/ Redo
    \/ \E k \in DOMAIN runs, shiftKey \in BOOLEAN : ClickCorrection(k, shiftKey)
    \/ \E i \in DOMAIN cards.prioritized, shiftKey \in BOOLEAN : ClickSuggestion(i, shiftKey)
    \/ \E i \in DOMAIN cards.enrichment, shiftKey \in BOOLEAN : ClickEnrichment(i, shiftKey)
    \/ \E i \in DOMAIN cards.tips, shiftKey \in BOOLEAN : ClickTip(i, shiftKey)
    \/ \E mode \in {"edit", "review"} : SetViewMode(mode)
    \/ \E key \in OpenedCriteria : SelectCriterion(key)
    \/ CloseModal
    \/ ClickAnalyze
    \/ \E data \in Responses : ResponseOk(data)
    \/ ResponseFailed

\* The program: Home and the events of its user interface.
Spec == Init /\ [][Next]_vars

(***************************************************************************)
(* The claims about the Document Store.                                    *)
(***************************************************************************)

\* Everything of Home's state but the record of the last handler.
homeVars == <<essay, history, historyIndex, loading, result, error, selectedCriterion,
              viewMode, lastModifiedText, pending, runs, cards, crashed>>

\* A step that ran updateEssay: a user edit or an apply.
SetTextStep == lastOp'.op \in {"edit", "apply"}

\* C1: in every reachable state, the initial one included, the current text
\* is the history snapshot at the cursor: essay = history[historyIndex].
C1_HistoryConsistency == Some(essay) = HistoryAt(historyIndex)

\* C2: in every reachable state, the initial one included, the cursor is a
\* valid index into the history: 0 <= historyIndex < history.length.
C2_CursorValid == 0 <= historyIndex /\ historyIndex < Len(history)

\* C3: after setText(newText), for any newText, the history is the old
\* history cut after the cursor followed by newText, the cursor is the last
\* index, and the current text is newText.
C3_SetTextPostcondition ==
    [][SetTextStep =>
        /\ history' = Append(SubSeq(history, 1, historyIndex + 1), lastOp'.text)
        /\ historyIndex' = Len(history') - 1
        /\ essay' = lastOp'.text]_vars

\* C3's case: an edit to the empty text while the text was already empty.
C3_Witness ==
    /\ lastOp.op = "edit"
    /\ lastOp.text = <<>>
    /\ Len(history) >= 2
    /\ history[Len(history) - 1] = <<>>
    /\ essay = <<>>

\* C4: when an effective undo is followed by setText(x), the snapshots after
\* the cursor are dropped from the history and the cursor is at the last
\* index; a redo right after changes nothing.
C4_BranchTruncation ==
    [][/\ (SetTextStep /\ lastOp'.branched) =>
            /\ historyIndex + 1 < Len(history)
            /\ history' = Append(SubSeq(history, 1, historyIndex + 1), lastOp'.text)
            /\ historyIndex' = Len(history') - 1
       /\ (lastOp'.op = "redo" /\ lastOp'.branched) =>
            /\ ~lastOp'.flag
            /\ UNCHANGED homeVars]_vars

\* C4's case: undo, then setText, then redo have run in this order.
C4_Witness == lastOp.op = "redo" /\ lastOp.branched

\* C5: undo and redo leave the history as it is; undo with no earlier
\* snapshot (cursor 0, or the empty history) and redo at the last index
\* change nothing; otherwise undo moves the cursor back by exactly one and
\* redo forward by exactly one.
C5_UndoRedoRelocateOnly ==
    [][/\ lastOp'.op = "undo" =>
            /\ history' = history
            /\ historyIndex <= 0 => UNCHANGED homeVars
            /\ historyIndex > 0 => historyIndex' = historyIndex - 1
       /\ lastOp'.op = "redo" =>
            /\ history' = history
            /\ historyIndex = Len(history) - 1 => UNCHANGED homeVars
            /\ historyIndex < Len(history) - 1 => historyIndex' = historyIndex + 1]_vars

\* C5's case: a redo that moved the cursor (after an undo that moved it).
C5_Witness == lastOp.op = "redo" /\ lastOp.flag /\ historyIndex = Len(history) - 1

(***************************************************************************)
(* The Annotator on its own: every document, list of corrections and       *)
(* last-changed text within the bounds, rendered once.                     *)
(***************************************************************************)

\* The longest document, the longest correction original, the longest
\* last-changed text and the longest list of corrections the Annotator is
\* run on.
MaxDocLen == 3

MaxSpanLen == 2

MaxModifiedLen == 1

MaxCorrections == 2

Alphabet == {"a", "b"}

TextsUpTo(n) == UNION {[1..k -> Alphabet] : k \in 0..n}

\* Corrections whose original is absent, empty or any text; the Annotator
\* does not read their replacement.
AnnotatorCorrections ==
    {[original |-> o, replacement |-> <<"b">>] :
        o \in {None} \cup {Some(t) : t \in TextsUpTo(MaxSpanLen)}}

AnnotatorCorrectionLists == UNION {[1..k -> AnnotatorCorrections] : k \in 0..MaxCorrections}

\* lastModifiedText is null or a non-empty text (updateEssay keeps it so);
\* the documents and the originals being any texts over the alphabet, the
\* last-changed texts are taken over one of its letters.
AnnotatorModified == {None} \cup {Some([i \in 1..k |-> "b"]) : k \in 1..MaxModifiedLen}

InitAnnotator ==
    /\ essay \in TextsUpTo(MaxDocLen)
    /\ history = <<essay>>
    /\ historyIndex = 0
    /\ loading = FALSE
    /\ \E corrections \in AnnotatorCorrectionLists :
          result = Some([corrections |-> Some(corrections), prioritized_suggestions |-> None,
                         enrichment |-> None, feedback |-> Some(NoTips)])
    /\ error = ""
    /\ selectedCriterion = NoCriterion
    /\ viewMode = "review"
    /\ lastModifiedText \in AnnotatorModified
    /\ pending = <<>>
    /\ runs = <<>>
    /\ cards = NoCards
    /\ crashed = FALSE
    /\ lastOp = Did("init", FALSE)

\* One render of the review pane.
Annotate ==
    /\ runs = <<>>
    /\ UNCHANGED <<essay, history, historyIndex, loading, result, error,
                   selectedCriterion, viewMode, lastModifiedText, pending>>
    /\ lastOp' = Did("render", FALSE)
    /\ Rerender

NextAnnotator == Annotate

SpecAnnotator == InitAnnotator /\ [][NextAnnotator]_vars

\* C6: for every document, every list of corrections (originals empty,
\* absent, repeated or overlapping included) and every last-changed text,
\* the runs of the Annotator, concatenated in order, are the document.
C6_PartitionInvariant == runs # <<>> => Concat(runs) = essay

\* C6's case: a rendered document with a correction run and a last-changed
\* run, where the second correction's original occurs in the document but
\* overlaps the first one's run and gets no run of its own.
C6_Witness ==
    /\ runs # <<>>
    /\ \E i, j \in DOMAIN runs : runs[i].kind = "correction" /\ runs[j].kind = "changed"
    /\ Len(result[1].corrections[1]) = 2
    /\ result[1].corrections[1][1].original # result[1].corrections[1][2].original
    /\ \A c \in 1..2 : /\ result[1].corrections[1][c].original # None
                        /\ Len(result[1].corrections[1][c].original[1]) = 2
                        /\ includes(essay, result[1].corrections[1][c].original[1])
    /\ \A i \in DOMAIN runs : runs[i].ref # 1

(***************************************************************************)
(* The Edit Applier called by any caller: applyFix with any target, in the *)
(* document or not (Home's own controls call it only for a target that is  *)
(* in the document).                                                       *)
(***************************************************************************)

ApplierTargets == { <<"a">>, <<"b">> }

ApplierReplacements == { <<"b">> }

ApplyCall(target, replacement, shiftKey) ==
    /\ ~crashed
    /\ HistoryRoom
    /\ Apply(target, replacement, shiftKey)

NextApplier ==
    \/ Next
    \/ \E target \in ApplierTargets, replacement \in ApplierReplacements, shiftKey \in BOOLEAN :
          ApplyCall(target, replacement, shiftKey)

SpecApplier == Init /\ [][NextApplier]_vars

(***************************************************************************)
(* The claims about the Edit Applier and the Applicability Tracker.        *)
(***************************************************************************)

ApplyStep == lastOp'.op = "apply"

\* C7: apply(target, replacement) with a target that is not a substring of
\* the document leaves the document, the history, the cursor and the
\* last-changed record as they are.
C7_MissingTargetNoOp ==
    [][(ApplyStep /\ ~includes(essay, lastOp'.target)) =>
          UNCHANGED <<essay, history, historyIndex, lastModifiedText>>]_vars

\* C8: apply(target, replacement) with a target that occurs in the document
\* sets the document to the text before the leftmost occurrence, then
\* exactly the replacement string, then the text after that occurrence.
C8_FirstOccurrenceReplacement ==
    [][(ApplyStep /\ includes(essay, lastOp'.target)) =>
          LET p == indexOf(essay, lastOp'.target)
          IN  essay' = Slice(essay, 0, p) \o lastOp'.replacement
                       \o Slice(essay, p + Len(lastOp'.target), Len(essay))]_vars

\* C9: after an apply the suggestion is resolved (its target is not in the
\* document), and an apply with the same target and replacement right after
\* leaves the document, the history and the cursor as they are.
C9_IdempotentApply ==
    [][ApplyStep =>
          /\ ~includes(essay', lastOp'.target)
          /\ (lastOp.op = "apply" /\ lastOp.target = lastOp'.target
                /\ lastOp.replacement = lastOp'.replacement)
             => UNCHANGED <<essay, history, historyIndex>>]_vars

\* What C10 says of one rendered item with a non-empty target and a
\* replacement: resolved exactly when the target is not in the document,
\* open (its apply control enabled) otherwise.
ReportedFromDocument(card, target, replacement) ==
    (Truthy(target) /\ Truthy(replacement)) =>
        /\ card.isApplied <=> ~includes(essay, target[1])
        /\ card.button = IF includes(essay, target[1]) THEN "enabled" ELSE "disabled"

\* C10: in every reachable state every actionable suggestion with a
\* non-empty target is shown resolved if and only if its target is not a
\* substring of the current document, and open otherwise.
C10_ResolvedDetection ==
    ~crashed =>
        /\ DOMAIN cards.prioritized = DOMAIN PrioritizedSuggestions(result)
        /\ DOMAIN cards.enrichment = DOMAIN Enrichment(result)
        /\ DOMAIN cards.tips = DOMAIN Tips(result, selectedCriterion)
        /\ \A i \in DOMAIN cards.prioritized :
              ReportedFromDocument(cards.prioritized[i],
                                   PrioritizedSuggestions(result)[i].apply_to_text,
                                   PrioritizedSuggestions(result)[i].replacement_text)
        /\ \A i \in DOMAIN cards.enrichment :
              ReportedFromDocument(cards.enrichment[i],
                                   Enrichment(result)[i].target_text,
                                   Enrichment(result)[i].replacement_text)
        /\ \A i \in DOMAIN cards.tips :
              ReportedFromDocument(cards.tips[i],
                                   Tips(result, selectedCriterion)[i].apply_to_text,
                                   Tips(result, selectedCriterion)[i].replacement_text)

\* C10's case: right after an undo that moved the cursor, an actionable
\* suggestion is open again and an actionable enrichment item is shown
\* resolved.
C10_Witness ==
    /\ lastOp.op = "undo" /\ lastOp.flag
    /\ \E i \in DOMAIN cards.prioritized :
          cards.prioritized[i].button = "enabled" /\ ~cards.prioritized[i].isApplied
    /\ \E i \in DOMAIN cards.enrichment :
          cards.enrichment[i].button = "disabled" /\ cards.enrichment[i].isApplied

(***************************************************************************)
(* The claims about suggestions without a usable target.                   *)
(***************************************************************************)

\* What C11 says of one rendered item whose target is the empty string: no
\* check mark and no apply control.
Informational(card, target) ==
    target = Some(<<>>) => ~card.isApplied /\ card.button = "none"

\* C11: whatever the document holds, a suggestion or enrichment item whose
\* target is the empty string is never shown resolved and has no apply
\* control, and no apply ever runs with an empty target.
C11_EmptyTargetGuard ==
    /\ ~crashed =>
          /\ \A i \in DOMAIN PrioritizedSuggestions(result) :
                /\ i \in DOMAIN cards.prioritized
                /\ Informational(cards.prioritized[i],
                                 PrioritizedSuggestions(result)[i].apply_to_text)
          /\ \A i \in DOMAIN Enrichment(result) :
                /\ i \in DOMAIN cards.enrichment
                /\ Informational(cards.enrichment[i], Enrichment(result)[i].target_text)
    /\ lastOp.op = "apply" => lastOp.target # <<>>

\* C11's case: a suggestion and an enrichment item with an empty target and
\* a replacement are rendered over a document that is not empty, right
\* after an undo changed the document.
C11_Witness ==
    /\ ~crashed
    /\ essay # <<>>
    /\ lastOp.op = "undo" /\ lastOp.flag
    /\ \E i \in DOMAIN cards.prioritized :
          /\ PrioritizedSuggestions(result)[i].apply_to_text = Some(<<>>)
          /\ Truthy(PrioritizedSuggestions(result)[i].replacement_text)
    /\ \E i \in DOMAIN cards.enrichment :
          /\ Enrichment(result)[i].target_text = Some(<<>>)
          /\ Truthy(Enrichment(result)[i].replacement_text)

(***************************************************************************)
(* The claims about the analysis request: handleAnalyze.                   *)
(***************************************************************************)

\* A step that handled a failed request; a step that ran an Analyze click.
FailedStep == lastOp'.op = "response" /\ ~lastOp'.flag

AnalyzeStep == lastOp'.op = "analyze"

\* C12: when a request fails, then after the failure is handled loading is
\* false, an error message is set, and the result that was loaded when the
\* request was issued is still the current result.
C12_FailurePreservesResult ==
    [][FailedStep =>
          /\ ~loading'
          /\ error' # ""
          /\ result' = pending[1].cleared]_vars

\* C13: in every reachable state at most one analysis request is
\* outstanding, and loading is true exactly while one is: whatever edits,
\* applies, undos and redos come between, no request is issued while
\* loading is true.
C13_ReentrancyGuard ==
    /\ Len(pending) <= 1
    /\ loading <=> pending # <<>>

\* C13's case: a request is outstanding and a redo has just changed the
\* document under it.
C13_Witness ==
    /\ loading
    /\ Len(pending) = 1
    /\ lastOp.op = "redo" /\ lastOp.flag

\* The correction runs and the rendered items are those of data and of
\* nothing else.
ShowsOnly(data, rs, cs) ==
    /\ \A k \in DOMAIN rs :
          rs[k].kind = "correction" =>
              /\ rs[k].ref + 1 \in DOMAIN data.corrections[1]
              /\ data.corrections[1][rs[k].ref + 1].original = Some(rs[k].text)
    /\ DOMAIN cs.prioritized = DOMAIN PrioritizedSuggestions(Some(data))
    /\ DOMAIN cs.enrichment = DOMAIN Enrichment(Some(data))
    /\ cs = Cards(essay', Some(data), selectedCriterion')

\* C14: when a successful response arrives, whatever result was loaded
\* before, the current result is exactly the response's: the corrections
\* highlighted and the suggestions shown are the response's alone.
C14_ResultReplacement ==
    [][\A data \in Responses :
          ResponseOk(data) =>
              /\ result' = Some(data)
              /\ ~crashed' => ShowsOnly(data, runs', cards')]_vars

\* C14's case: ResultB has arrived after a suggestion of an earlier result
\* had been applied (ResultB itself has nothing to apply), and the review
\* pane still marks the text that apply inserted.
C14_Witness ==
    /\ lastOp.op = "response" /\ lastOp.flag
    /\ result = Some(ResultB)
    /\ lastModifiedText # None
    /\ \E k \in DOMAIN runs : runs[k].kind = "changed"

\* C15: an Analyze click on an empty or whitespace-only document sends no
\* request and sets the inline error message; loading, the result, the
\* document, the history, the cursor and the view mode stay as they are.
C15_InputError ==
    [][(AnalyzeStep /\ \A i \in DOMAIN essay : essay[i] = " ") =>
          /\ pending' = pending
          /\ error' = "Please enter your essay."
          /\ UNCHANGED <<loading, result, essay, history, historyIndex, viewMode>>]_vars

\* C15's case: Analyze was clicked in review mode on a whitespace-only
\* document while a result was loaded.
C15_Witness ==
    /\ lastOp.op = "analyze" /\ ~lastOp.flag
    /\ essay = <<" ">>
    /\ result # None
    /\ viewMode = "review"
    /\ error = "Please enter your essay."

\* Every item of the list whose non-empty target is not in the document is
\* rendered with its check mark.
AbsentShownResolved(text, targets, cs) ==
    \A i \in DOMAIN targets :
        (Truthy(targets[i]) /\ ~includes(text, targets[i][1])) =>
            i \in DOMAIN cs /\ cs[i].isApplied

\* C16: a successful response is installed as the current result whatever
\* happened to the document while the request was outstanding; its arrival
\* changes neither the document nor the history nor the cursor; a response
\* that has its lists raises no error, and its suggestions whose target is
\* not in the current document are shown resolved.
C16_StaleResultApplies ==
    [][\A data \in Responses :
          ResponseOk(data) =>
              /\ result' = Some(data)
              /\ UNCHANGED <<essay, history, historyIndex, error>>
              /\ (data.corrections # None /\ data.feedback # None) => ~crashed'
              /\ AbsentShownResolved(essay',
                    [i \in DOMAIN PrioritizedSuggestions(Some(data)) |->
                        PrioritizedSuggestions(Some(data))[i].apply_to_text],
                    cards'.prioritized)
              /\ AbsentShownResolved(essay',
                    [i \in DOMAIN Enrichment(Some(data)) |->
                        Enrichment(Some(data))[i].target_text],
                    cards'.enrichment)]_vars

\* C16's case: the response has arrived over a whitespace-only document (a
\* request is sent only for a document that is not, so it was changed while
\* the request was outstanding), and a suggestion and an enrichment item
\* whose targets are gone are shown resolved.
C16_Witness ==
    /\ lastOp.op = "response" /\ lastOp.flag
    /\ essay = <<" ">>
    /\ ~crashed
    /\ \E i \in DOMAIN cards.prioritized : cards.prioritized[i].isApplied
    /\ \E i \in DOMAIN cards.enrichment : cards.enrichment[i].isApplied

\* A response body that lacks a required part of the result.
Malformed(data) ==
    \/ data.corrections = None
    \/ data.prioritized_suggestions = None
    \/ data.enrichment = None
    \/ data.feedback = None

\* C17: a response with success status whose body lacks required parts of
\* the result is never installed as the current result: it ends in the
\* error state of a failed request, loading false and the error message set.
C17_MalformedRejected ==
    [][\A data \in Responses :
          (ResponseOk(data) /\ Malformed(data)) =>
              /\ result' # Some(data)
              /\ ~loading'
              /\ error' = "Something went wrong. Please try again."]_vars

(***************************************************************************)
(* The claims about the last-changed highlight and the Annotator's output. *)
(***************************************************************************)

\* C18: after a plain user edit (setText without changedSpan) and after an
\* apply with the highlight suppressed (Shift held), the last-changed
\* record is none and the review pane has no last-changed run, even if an
\* earlier apply had set one.
C18_HighlightOnlyWithChangedSpan ==
    [][(\/ lastOp'.op = "edit"
        \/ lastOp'.op = "apply" /\ lastOp'.flag) =>
          /\ lastModifiedText' = None
          /\ \A k \in DOMAIN runs' : runs'[k].kind # "changed"]_vars

\* The review pane is rendered.
Reviewing == viewMode = "review" /\ ~crashed

C19_PlainSibling ==
    /\ Reviewing
    /\ essay = <<"b", " ", "a">>
    /\ result = Some(ResultB)
    /\ lastModifiedText = None

C19_MarkedSibling ==
    /\ Reviewing
    /\ essay = <<"b", " ", "a">>
    /\ result = Some(ResultB)
    /\ lastModifiedText = Some(<<"b">>)
    /\ runs # renderAnnotatedEssay(essay, result, None)

(***************************************************************************)
(* The claim about the state a failed request leaves.                      *)
(***************************************************************************)

\* C20: in every state reached by a failed analysis request the user can
\* get to the textarea without a successful analysis: either the edit pane
\* is shown, or the Edit / Review toggle that leads to it is rendered
\* (it is rendered only with a result).
C20_FailureLeavesEditable ==
    (lastOp.op = "response" /\ ~lastOp.flag) =>
        \/ viewMode = "edit"
        \/ result # None /\ ~crashed

(***************************************************************************)
(* The claims about informational suggestions and deletions.               *)
(***************************************************************************)

\* What C21 says of one rendered item that has a non-empty target and no
\* replacement: no check mark.
NeverShownApplied(cs, targets, replacements) ==
    \A i \in DOMAIN targets :
        (Truthy(targets[i]) /\ replacements[i] = None) =>
            i \in DOMAIN cs /\ ~cs[i].isApplied

\* C21: whatever the document holds, a suggestion or tip with a non-empty
\* target and no replacement is never shown as resolved/applied, also when
\* its target is not in the document.
C21_InformationalNeverResolved ==
    ~crashed =>
        /\ NeverShownApplied(cards.prioritized,
              [i \in DOMAIN PrioritizedSuggestions(result) |->
                  PrioritizedSuggestions(result)[i].apply_to_text],
              [i \in DOMAIN PrioritizedSuggestions(result) |->
                  PrioritizedSuggestions(result)[i].replacement_text])
        /\ NeverShownApplied(cards.tips,
              [i \in DOMAIN Tips(result, selectedCriterion) |->
                  Tips(result, selectedCriterion)[i].apply_to_text],
              [i \in DOMAIN Tips(result, selectedCriterion) |->
                  Tips(result, selectedCriterion)[i].replacement_text])

\* What C22 says of the rendered items whose target is non-empty and in the
\* document and whose replacement is the empty string: the apply control
\* is offered.
DeletionOffered(cs, targets, replacements) ==
    \A i \in DOMAIN targets :
        (/\ Truthy(targets[i])
         /\ replacements[i] = Some(<<>>)
         /\ includes(essay, targets[i][1])) =>
            i \in DOMAIN cs /\ cs[i].button = "enabled"

\* C22: a suggestion, enrichment item or tip with a non-empty target and a
\* replacement that is the empty string is actionable: while its target is
\* in the document its apply control is offered.
C22_DeletionActionable ==
    ~crashed =>
        /\ DeletionOffered(cards.prioritized,
              [i \in DOMAIN PrioritizedSuggestions(result) |->
                  PrioritizedSuggestions(result)[i].apply_to_text],
              [i \in DOMAIN PrioritizedSuggestions(result) |->
                  PrioritizedSuggestions(result)[i].replacement_text])
        /\ DeletionOffered(cards.enrichment,
              [i \in DOMAIN Enrichment(result) |-> Enrichment(result)[i].target_text],
              [i \in DOMAIN Enrichment(result) |-> Enrichment(result)[i].replacement_text])
        /\ DeletionOffered(cards.tips,
              [i \in DOMAIN Tips(result, selectedCriterion) |->
                  Tips(result, selectedCriterion)[i].apply_to_text],
              [i \in DOMAIN Tips(result, selectedCriterion) |->
                  Tips(result, selectedCriterion)[i].replacement_text])

(***************************************************************************)
(* The claims about undo and redo after an apply.                          *)
(***************************************************************************)

\* The rendered items whose target is t, of the three lists.
ItemsOn(t, cs, res, criterion) ==
    {cs.prioritized[i] : i \in {j \in DOMAIN cs.prioritized :
        PrioritizedSuggestions(res)[j].apply_to_text = Some(t)}}
    \cup {cs.enrichment[i] : i \in {j \in DOMAIN cs.enrichment :
        Enrichment(res)[j].target_text = Some(t)}}
    \cup {cs.tips[i] : i \in {j \in DOMAIN cs.tips :
        Tips(res, criterion)[j].apply_to_text = Some(t)}}

\* The corrections of the result whose original is t have a run, or none has.
CorrectionRunsOn(t, rs, res, shown) ==
    \A c \in DOMAIN res[1].corrections[1] :
        res[1].corrections[1][c].original = Some(t) =>
            (shown <=> \E k \in DOMAIN rs : rs[k].kind = "correction" /\ rs[k].ref = c - 1)

\* An apply has just changed the document and taken its target out of it.
AppliedAndResolved ==
    /\ lastOp.op = "apply"
    /\ essay # history[historyIndex]
    /\ ~includes(essay, lastOp.target)

\* An undo has just taken such an apply back.
UndidResolvingApply ==
    /\ lastOp.op = "undo" /\ lastOp.flag
    /\ lastOp.target # <<>>
    /\ lastOp.text # essay
    /\ ~includes(lastOp.text, lastOp.target)

\* C23: an undo right after an apply that changed the document and
\* resolved its suggestion restores the document the apply was made on, in
\* which the suggestion is shown open again and its correction run is
\* back; a redo right after that undo restores the applied document, in
\* which it is shown resolved again and has no run.
C23_HistoryConsistentWithApplied ==
    [][/\ (AppliedAndResolved /\ lastOp'.op = "undo") =>
             /\ essay' = history[historyIndex]
             /\ includes(essay', lastOp.target)
             /\ replace(essay', lastOp.target, lastOp.replacement) = essay
             /\ \A card \in ItemsOn(lastOp.target, cards', result', selectedCriterion') :
                   ~card.isApplied /\ card.button # "disabled"
             /\ CorrectionRunsOn(lastOp.target, runs', result', TRUE)
       /\ (UndidResolvingApply /\ lastOp'.op = "redo") =>
             /\ essay' = lastOp.text
             /\ \A card \in ItemsOn(lastOp.target, cards', result', selectedCriterion') :
                   card.isApplied /\ card.button # "enabled"
             /\ CorrectionRunsOn(lastOp.target, runs', result', FALSE)]_vars

\* C23's case: an apply resolved its suggestion, the undo after it took it
\* back and the redo after that has applied it again: the suggestion is
\* shown resolved.
C23_Witness ==
    /\ lastOp.op = "redo" /\ lastOp.flag
    /\ lastOp.target # <<>>
    /\ lastOp.text = essay
    /\ ~includes(essay, lastOp.target)
    /\ \E card \in ItemsOn(lastOp.target, cards, result, selectedCriterion) :
          card.isApplied /\ card.button = "disabled"

(***************************************************************************)
(* The claims about the runs of the Annotator.                             *)
(***************************************************************************)

\* The positions of the runs of one kind.
RunsOfKind(kind) == {k \in DOMAIN runs : runs[k].kind = kind}

\* C24: the Annotator's output holds at most one last-changed run, the
\* first occurrence of the last-changed text in the plain runs: the plain
\* runs before it do not contain that text, and no second run is marked.
C24_ChangedMarksFirstOnly ==
    /\ Cardinality(RunsOfKind("changed")) <= 1
    /\ \A k \in RunsOfKind("changed") :
          /\ Some(runs[k].text) = lastModifiedText
          /\ \A j \in 1..(k - 1) :
                runs[j].kind = "plain" => ~includes(runs[j].text, runs[k].text)

\* The correction runs of a run sequence that starts at the given offset
\* of the document, each with the offset of its first character.
RECURSIVE CorrectionSpans(_, _)
CorrectionSpans(rs, offset) ==
    IF rs = <<>> THEN {}
    ELSE (IF rs[1].kind = "correction"
          THEN {[from |-> offset, text |-> rs[1].text, ref |-> rs[1].ref]}
          ELSE {})
         \cup CorrectionSpans(Tail(rs), offset + Len(rs[1].text))

\* From annotatedText as it is before the correction at 0-based position
\* index, every correction run made so far is a run of every later stage
\* and of the final runs.
RECURSIVE SpansPersist(_, _, _, _)
SpansPersist(annotatedText, corrections, index, final) ==
    /\ CorrectionSpans(annotatedText, 0) \subseteq final
    /\ index < Len(corrections) =>
          SpansPersist(ApplyCorrection(annotatedText, corrections[index + 1], index),
                       corrections, index + 1, final)

\* C25: the corrections are processed in the order supplied, and a span
\* made a correction run by one of them stays that run, at its place, with
\* its text and its correction, through all later corrections and the
\* last-changed pass; so the first occurrence of the first correction's
\* original is a run of the first correction, whatever later originals
\* overlap it.
C25_FirstWriterWins ==
    (runs # <<>> /\ result # None) =>
        LET corrections == result[1].corrections[1]
            final == CorrectionSpans(runs, 0)
        IN  /\ SpansPersist(<<Plain(essay)>>, corrections, 0, final)
            /\ (/\ corrections # <<>>
                /\ Truthy(corrections[1].original)
                /\ includes(essay, corrections[1].original[1])) =>
                   [from |-> indexOf(essay, corrections[1].original[1]),
                    text |-> corrections[1].original[1], ref |-> 0] \in final

\* C25's case: the second correction's original occurs in the document only
\* where it overlaps the run of the first, whose original is longer, and
\* gets no run; the last-changed pass has marked a run as well.
C25_Witness ==
    /\ runs # <<>>
    /\ Len(result[1].corrections[1]) = 2
    /\ LET first == result[1].corrections[1][1].original
           second == result[1].corrections[1][2].original
       IN  /\ Truthy(first) /\ Truthy(second)
           /\ Len(first[1]) = 2 /\ Len(second[1]) = 1
           /\ includes(first[1], second[1])
           /\ includes(essay, second[1])
    /\ \E k \in DOMAIN runs : runs[k].kind = "correction" /\ runs[k].ref = 0
    /\ \A k \in DOMAIN runs : runs[k].ref # 1
    /\ RunsOfKind("changed") # {}

\* C26: undo and redo leave the last-changed record as it is, whether the
\* cursor moved or not.
C26_UndoRedoKeepHighlight ==
    [][lastOp'.op \in {"undo", "redo"} => lastModifiedText' = lastModifiedText]_vars

\* C26's case: an apply set the last-changed text, the undo right after it
\* took the apply back, and the text the apply inserted is still recorded
\* though the document no longer holds it.
C26_Witness ==
    /\ lastOp.op = "undo" /\ lastOp.flag
    /\ lastOp.target # <<>>
    /\ lastModifiedText = Some(lastOp.replacement)
    /\ ~includes(essay, lastOp.replacement)

\* C27: once setText has run, an undo that is a no-op (undo repeated until
\* it changes nothing) leaves the text of the initial document, the empty
\* text Home starts with.
C27_UndoReachesInitial ==
    (lastOp.op = "undo" /\ ~lastOp.flag /\ history # <<>>) => essay = <<>>

(***************************************************************************)
(* The claim about the end of the loading phase.  The external call is     *)
(* assumed to return or fail: the await of handleAnalyze is resumed.       *)
(***************************************************************************)

\* The await of an outstanding request is resumed, with a response or a
\* failure.
Settle ==
    \/ \E data \in Responses : ResponseOk(data)
    \/ ResponseFailed

SpecLive == Spec /\ WF_vars(Settle)

\* C28: whenever a request has been issued (loading is true), loading
\* eventually becomes false; the step that handles a success installs the
\* result and switches to review mode, the step that handles a failure
\* sets the error, and both clear loading.
C28_LoadingEnds ==
    /\ loading ~> ~loading
    /\ [][(lastOp'.op = "response" /\ lastOp'.flag) =>
             ~loading' /\ result' # None /\ viewMode' = "review"]_vars
    /\ [][FailedStep => ~loading' /\ error' # ""]_vars

\* C28's case: a request issued from edit mode has failed and loading is
\* false again.
C28_Witness ==
    /\ lastOp.op = "response" /\ ~lastOp.flag
    /\ ~loading
    /\ pending = <<>>
    /\ error # ""
    /\ viewMode = "edit"

\* C29: with a result loaded, no plain run and no last-changed run of the
\* Annotator's output contains the non-empty original of a correction;
\* the text of every correction run is the original of the correction it
\* references; a correction whose original is absent, or not in the
\* document, has no run.
C29_CompleteHighlighting ==
    (runs # <<>> /\ result # None) =>
        LET corrections == result[1].corrections[1]
        IN  /\ \A k \in DOMAIN runs :
                  IF runs[k].kind = "correction"
                  THEN /\ runs[k].ref + 1 \in DOMAIN corrections
                       /\ corrections[runs[k].ref + 1].original = Some(runs[k].text)
                  ELSE \A c \in DOMAIN corrections :
                          Truthy(corrections[c].original) =>
                              ~includes(runs[k].text, corrections[c].original[1])
            /\ \A c \in DOMAIN corrections :
                  (\/ corrections[c].original = None
                   \/ ~includes(essay, corrections[c].original[1])) =>
                      \A k \in DOMAIN runs : runs[k].ref # c - 1

\* C29's case: the first correction's original is not in the document and
\* has no run, the second one's occurs twice and has two runs, and a
\* last-changed run lies between plain text.
C29_Witness ==
    /\ runs # <<>>
    /\ Len(result[1].corrections[1]) = 2
    /\ Truthy(result[1].corrections[1][1].original)
    /\ ~includes(essay, result[1].corrections[1][1].original[1])
    /\ Cardinality({k \in DOMAIN runs : runs[k].ref = 1}) = 2
    /\ RunsOfKind("changed") # {}

=============================================================================
